---- MODULE Spec2Model ----
(***************************************************************************)
(* Model of the accounting back end (gtilev/BackendApp-Core-C): the file   *)
(* routes (upload, process, get, delete), the operations listing, the file *)
(* processing orchestrator, the template detector, the Rival and AJUR      *)
(* parsers, the S3 service, the bucket initialisation at start-up, and the *)
(* relational tables uploadedfile / accountingoperation.                   *)
(*                                                                         *)
(* Every HTTP request runs in a request slot with its own database session *)
(* (deps.get_db).  A slot advances in steps; a step is one interaction     *)
(* with a shared resource (a query, a commit, an object-storage call)      *)
(* together with the local computation that follows it.  The database is   *)
(* PostgreSQL (the operation model imports the PostgreSQL JSONB type):     *)
(* read committed isolation, identifiers drawn from sequences, commits     *)
(* atomic, foreign keys enforced.                                          *)
(*                                                                         *)
(* Cyrillic cell texts of the source are written in Latin letters.         *)
(***************************************************************************)
EXTENDS Integers, Sequences, FiniteSets, TLC

\* ------------------------------------------------------------------ bounds
MaxReq == 2        \* request slots: requests that can be in flight together
MaxUploads == 1    \* upload requests that get as far as generating a key
MaxCalls == 4      \* requests received in one run of the service

Req == 1..MaxReq
SeqReq == {1}

\* ------------------------------------------------------------ value domain
None == <<>>                      \* Python None for optional values
Some(v) == <<v>>

\* TemplateType values (the strings stored in uploadedfile.template_type)
RIVAL == "RIVAL"
AJUR == "AJUR"
MICROINVEST == "MIKROINVEST"
BUSINESS_NAVIGATOR == "BusinessNavigator"
UNIVERSUM == "UNIVERSUM"
TemplateType == {RIVAL, AJUR, MICROINVEST, BUSINESS_NAVIGATOR, UNIVERSUM}

\* File names are sequences of characters.
XlsxName == <<"t", ".", "x", "l", "s", "x">>
XlsName == <<"t", ".", "x", "l", "s">>
TxtName == <<"n", ".", "t", "x", "t">>
UpperName == <<"t", ".", "X", "L", "S">>
Filenames == {XlsxName, XlsName, TxtName, UpperName}

\* str.endswith(suffix)
EndsWith(s, suffix) ==
    /\ Len(s) >= Len(suffix)
    /\ SubSeq(s, Len(s) - Len(suffix) + 1, Len(s)) = suffix

\* Variant: the extension is compared without regard to case.
ValidExtensionAnyCase(filename) ==
    \/ EndsWith(filename, <<".", "x", "l", "s">>)
    \/ EndsWith(filename, <<".", "x", "l", "s", "x">>)
    \/ EndsWith(filename, <<".", "X", "L", "S">>)

\* str.endswith(('.xls', '.xlsx'))
ValidExtension(filename) ==
    \/ EndsWith(filename, <<".", "x", "l", "s">>)
    \/ EndsWith(filename, <<".", "x", "l", "s", "x">>)

\* ------------------------------------------------------------- detector
\* Texts are strings.  Every comparison of the detector is made on lower-cased
\* text, so texts are given in lower case, Cyrillic letters written as the
\* lower-case Latin letters a b v g d e x z i j k l m n o p r s t u f h c q w y
\* (x = zhe, q = che, w = sha, y = er) and A (ya), U (yu), W (shta), Y (soft
\* sign), # (numero sign); N and O are the Latin letters n and o.
NaN == ""                         \* an empty cell

Min(a, b) == IF a < b THEN a ELSE b

\* kw in text
Contains(text, kw) ==
    \E i \in 1..(Len(text) - Len(kw) + 1) : SubSeq(text, i, i + Len(kw) - 1) = kw

\* any(kw in t for t in texts)
AnyContains(texts, kw) == \E j \in 1..Len(texts) : Contains(texts[j], kw)

\* any(a in t and b in t for t in texts)
AnyContainsBoth(texts, a, b) ==
    \E j \in 1..Len(texts) : Contains(texts[j], a) /\ Contains(texts[j], b)

\* The number of entries of the list keywords found in one of texts.
CountMatches(texts, keywords) ==
    Cardinality({k \in 1..Len(keywords) : AnyContains(texts, keywords[k])})

\* _check_keywords_in_headers
check_keywords_in_headers(headers, keywords, min_matches) ==
    CountMatches(headers, keywords) >= min_matches

\* [str(val).lower() for val in row if not pd.isna(val)]
RowValues(row) == SelectSeq(row, LAMBDA cell : cell # NaN)

\* ' '.join(texts)
RECURSIVE Join(_)
Join(texts) ==
    IF texts = <<>> THEN ""
    ELSE IF Len(texts) = 1 THEN texts[1]
    ELSE texts[1] \o " " \o Join(Tail(texts))

RowText(row) == Join(RowValues(row))

\* range(min(n, len(df))), rows counted from 1
FirstRows(df, n) == 1..Min(n, Len(df.rows))

ajur_specific_indicators ==
    << "ustanoveno pri odita", "otklonenie", "testvani na kontrolni dejstviA" >>

bn_unique_indicators ==
    << "dokument: tip", "dokument: nomer", "dokument: data",
       "sqetovoden tekst", "korespondenciA", "kontragent:", "ime na dilyr",
       "ime na partida", "quxd ezik" >>

rival_expected_keywords ==
    << "vid dok", "nomer dokument", "data dokument", "smetka debit",
       "smetka kredit", "stojnost", "obAsnenie na statiA", "hronologiqen opis" >>

rival_specific_patterns ==
    << "vid dok", "nomer dokument", "data dokument", "smetka debit",
       "smetka kredit", "stojnost", "obAsnenie na statiA" >>

strong_ajur_indicators ==
    << "ustanoveno pri odita", "otklonenie", "testvani na kontrolni dejstviA",
       "ustanoveno naliqie na kontrolno dejstvie pri odita" >>

secondary_keywords ==
    << "analitiqna smetka", "dt s/ka", "kt s/ka", "obAsnitelen tekst" >>

ajur_expected_keywords ==
    << "#", "data reg", "vid dok", "dokument NO / data", "reg. NO", "dt s/ka",
       "analitiqna smetka", "kt s/ka", "koliqestvo", "mArka", "suma",
       "obAsnitelen tekst", "ustanoveno pri odita", "otklonenie",
       "testvani na kontrolni dejstviA",
       "ustanoveno naliqie  na kontrolno dejstvie   pri odita" >>

microinvest_expected_keywords ==
    << "kontirane", "data", "debit smetka", "debit", "kredit smetka", "kredit",
       "suma", "dok. vid", "dok. data", "dokument #", "partnYor",
       "eik/dds nomer", "dyrxava", "osnovanie", "zabelexka", "vtora zabelexka",
       "sdelka po zdds", "paragraf", "mesec za eksport", "potrebitel" >>

bn_expected_keywords ==
    << "korespondenciA", "suma debit", "suma kredit", "suma v qv debit",
       "suma v qv kredit", "quxda valuta", "koliqestvo debit",
       "koliqestvo kredit", "cena", "merna edinica", "dokument: tip",
       "dokument: nomer", "dokument: data", "sqetovoden tekst", "papka",
       "period", "kod", "subkod", "dilyr", "ime na dilyr", "grupa dilyri",
       "krajno saldo debit", "krajno saldo kredit", "klas na smetka",
       "nomer na smetka", "ime na kor.smetka", "ime na kor.smetka, quxd ezik",
       "kod na partida", "ime na partida", "ime na partida, quxd ezik",
       "korespondenciA, quxd ezik", "sreden debit oborot",
       "sreden kredit oborot", "sredno debit koliqestvo",
       "sredno kredit koliqestvo", "klas na kor.smetka", "nomer na kor.smetka",
       "ime dilyr,quxd ezik", "kontragent: poWenski kod",
       "kontragent: naseleno mAsto", "kontragent: adres",
       "kontragent: dopyln.kod", "kontragent: danyqen nomer",
       "kontragent: eik", "kontragent: mol", "kontragent: banka",
       "kontragent: bankova smetka", "kontragent: bankov kod", "kod op",
       "debit naq.saldo", "kredit naq.saldo", "nivo" >>

alternative_keywords ==
    << "dok tip", "dok nomer", "dok data", "sqetovoden tekst" >>

strong_indicators ==
    << "sqetovoden tekst", "dokument: tip", "korespondenciA", "kontragent:",
       "quxd ezik", "ime na partida" >>

accounting_terms ==
    << "debit", "kredit", "suma", "dokument", "operaciA", "sqetovodna" >>

\* _get_headers: the column names as lower-case strings
get_headers(df) == df.headers

\* Variant: 5 of the 9 indicators are needed.
has_business_navigator_strong_indicators_min5(headers) ==
    CountMatches(headers, bn_unique_indicators) >= 5

\* _has_business_navigator_strong_indicators: at least 2 of the 9 indicators
has_business_navigator_strong_indicators(headers) ==
    CountMatches(headers, bn_unique_indicators) >= 2

\* One row of the scan of _check_rival_pattern (lines 313-378): is row i a
\* Rival header row, or the title row followed by one.
RivalHeaderRow(df, i) ==
    LET row_values == RowValues(df.rows[i])
    IN \/ CountMatches(row_values, rival_specific_patterns) >= 4
       \/ /\ AnyContainsBoth(row_values, "vid", "dok")
          /\ AnyContainsBoth(row_values, "nomer", "dokument")
          /\ AnyContainsBoth(row_values, "data", "dokument")
          /\ \/ AnyContainsBoth(row_values, "smetka", "debit")
             \/ AnyContainsBoth(row_values, "smetka", "kredit")
          /\ ~AnyContains(row_values, "korespondenciA")
          /\ ~AnyContains(row_values, "kontragent:")
       \/ /\ CountMatches(row_values, rival_expected_keywords) >= 5
          /\ ~AnyContains(row_values, "korespondenciA")
          /\ ~AnyContains(row_values, "kontragent:")
          /\ ~AnyContains(row_values, "quxd ezik")
       \/ /\ AnyContainsBoth(row_values, "hronologiqen", "opis")
          /\ \E j \in (i + 1)..Min(i + 9, Len(df.rows)) :
                /\ AnyContains(RowValues(df.rows[j]), "vid")
                /\ AnyContains(RowValues(df.rows[j]), "dokument")

\* Variant: the headers must match 4 of the 8 keywords.
check_rival_pattern_min4(df, headers) ==
    IF \E i \in FirstRows(df, 5), k \in 1..Len(ajur_specific_indicators) :
          AnyContains(RowValues(df.rows[i]), ajur_specific_indicators[k])
    THEN FALSE
    ELSE IF has_business_navigator_strong_indicators(headers) THEN FALSE
    ELSE IF CountMatches(headers, rival_expected_keywords) >= 4 THEN TRUE
    ELSE \E i \in 8..Min(15, Len(df.rows)) : RivalHeaderRow(df, i)

\* _check_rival_pattern
check_rival_pattern(df, headers) ==
    IF \E i \in FirstRows(df, 5), k \in 1..Len(ajur_specific_indicators) :
          AnyContains(RowValues(df.rows[i]), ajur_specific_indicators[k])
    THEN FALSE
    ELSE IF has_business_navigator_strong_indicators(headers) THEN FALSE
    ELSE IF CountMatches(headers, rival_expected_keywords) >= 3 THEN TRUE
    ELSE \E i \in 8..Min(15, Len(df.rows)) : RivalHeaderRow(df, i)

\* Variant: 15 of the 16 keywords are enough.
check_ajur_pattern_min15(df, headers) ==
    \/ \E i \in FirstRows(df, 5), k \in 1..Len(strong_ajur_indicators) :
          /\ Contains(RowText(df.rows[i]), strong_ajur_indicators[k])
          /\ \E s \in 1..Len(secondary_keywords) :
                \/ AnyContains(headers, secondary_keywords[s])
                \/ AnyContains(RowValues(df.rows[i]), secondary_keywords[s])
    \/ /\ AnyContains(headers, "vid dok")
       /\ check_keywords_in_headers(headers, ajur_expected_keywords, 15)

\* _check_ajur_pattern: a strong indicator in one of the first 5 rows
\* confirmed by a secondary keyword in the headers or in that row, or else
\* 'vid dok' in a header and 16 of the 16 keywords.
check_ajur_pattern(df, headers) ==
    \/ \E i \in FirstRows(df, 5), k \in 1..Len(strong_ajur_indicators) :
          /\ Contains(RowText(df.rows[i]), strong_ajur_indicators[k])
          /\ \E s \in 1..Len(secondary_keywords) :
                \/ AnyContains(headers, secondary_keywords[s])
                \/ AnyContains(RowValues(df.rows[i]), secondary_keywords[s])
    \/ /\ AnyContains(headers, "vid dok")
       /\ check_keywords_in_headers(headers, ajur_expected_keywords, 16)

\* _check_microinvest_pattern
check_microinvest_pattern(df, headers) ==
    /\ AnyContains(headers, "eik/dds nomer")
    /\ check_keywords_in_headers(headers, microinvest_expected_keywords, 20)

\* _check_business_navigator_pattern
check_business_navigator_pattern(df, headers) ==
    LET all_keywords == bn_expected_keywords \o alternative_keywords
    IN \/ /\ CountMatches(headers, strong_indicators) >= 2
          /\ check_keywords_in_headers(headers, all_keywords, 5)
       \/ check_keywords_in_headers(headers, all_keywords, 15)

\* df.iloc[0:5].values.flatten() without the empty cells
RECURSIVE SampleData(_, _)
SampleData(df, i) ==
    IF i > Min(5, Len(df.rows)) THEN <<>>
    ELSE RowValues(df.rows[i]) \o SampleData(df, i + 1)

\* _check_universum_pattern
check_universum_pattern(df, headers) ==
    /\ Len(headers) >= 16
    /\ LET sample_data_str == SampleData(df, 1)
       IN Cardinality({j \in 1..Len(sample_data_str) :
                          \E t \in 1..Len(accounting_terms) :
                             Contains(sample_data_str[j], accounting_terms[t])}) >= 3

\* The file-name step of _analyze_dataframe (lines 137-161).  It never
\* classifies: df._metadata is a list, so its .get raises and the error is
\* swallowed by the handler of line 160.
filename_hint(df) == None

\* Variant: the Rival check before the AJUR check.
analyze_dataframe_rival_first(df) ==
    LET headers == get_headers(df)
    IN IF /\ \E i \in FirstRows(df, 5), k \in 1..Len(ajur_specific_indicators) :
                Contains(RowText(df.rows[i]), ajur_specific_indicators[k])
          /\ check_ajur_pattern(df, headers)
       THEN Some(AJUR)
       ELSE IF filename_hint(df) # None THEN filename_hint(df)
       ELSE IF /\ \E i \in FirstRows(df, 10) :
                     Contains(RowText(df.rows[i]), "hronologiqen opis")
               /\ ~has_business_navigator_strong_indicators(headers)
       THEN Some(RIVAL)
       ELSE IF /\ has_business_navigator_strong_indicators(headers)
               /\ check_business_navigator_pattern(df, headers)
       THEN Some(BUSINESS_NAVIGATOR)
       ELSE IF check_rival_pattern(df, headers) THEN Some(RIVAL)
       ELSE IF check_ajur_pattern(df, headers) THEN Some(AJUR)
       ELSE IF check_microinvest_pattern(df, headers) THEN Some(MICROINVEST)
       ELSE IF check_business_navigator_pattern(df, headers) THEN Some(BUSINESS_NAVIGATOR)
       ELSE IF check_universum_pattern(df, headers) THEN Some(UNIVERSUM)
       ELSE None

\* _analyze_dataframe
analyze_dataframe(df) ==
    LET headers == get_headers(df)
    IN IF /\ \E i \in FirstRows(df, 5), k \in 1..Len(ajur_specific_indicators) :
                Contains(RowText(df.rows[i]), ajur_specific_indicators[k])
          /\ check_ajur_pattern(df, headers)
       THEN Some(AJUR)
       ELSE IF filename_hint(df) # None THEN filename_hint(df)
       ELSE IF /\ \E i \in FirstRows(df, 10) :
                     Contains(RowText(df.rows[i]), "hronologiqen opis")
               /\ ~has_business_navigator_strong_indicators(headers)
       THEN Some(RIVAL)
       ELSE IF /\ has_business_navigator_strong_indicators(headers)
               /\ check_business_navigator_pattern(df, headers)
       THEN Some(BUSINESS_NAVIGATOR)
       ELSE IF check_ajur_pattern(df, headers) THEN Some(AJUR)
       ELSE IF check_rival_pattern(df, headers) THEN Some(RIVAL)
       ELSE IF check_microinvest_pattern(df, headers) THEN Some(MICROINVEST)
       ELSE IF check_business_navigator_pattern(df, headers) THEN Some(BUSINESS_NAVIGATOR)
       ELSE IF check_universum_pattern(df, headers) THEN Some(UNIVERSUM)
       ELSE None

\* A spreadsheet file as the detector meets it: which reading engine can
\* read it ("default", only "xlrd", or none: "fails"), whether analysing it
\* raises, its column names and its rows of cells.
File(read, analysis, headers, rows) ==
    [read |-> read, analysis |-> analysis, headers |-> headers, rows |-> rows]

\* pd.read_excel(..., nrows=20)
read_excel(file) ==
    [headers |-> file.headers, rows |-> SubSeq(file.rows, 1, Min(20, Len(file.rows)))]

\* An exception on its way out of a function.
Raise == <<"Exception", "raised">>

\* The try block of detect_template (lines 29-31).
detect_template_try(file) ==
    IF file.read # "default" \/ file.analysis = "raises" THEN Raise
    ELSE analyze_dataframe(read_excel(file))

\* The try block of detect_template_from_bytes (lines 48-98): the second
\* read, with the xlrd engine, follows a failure of the first.
detect_template_from_bytes_try(file) ==
    IF file.read = "fails" \/ file.analysis = "raises" THEN Raise
    ELSE analyze_dataframe(read_excel(file))

\* Variant: no handler, the exception leaves the detector.
Reraise(result) == result

\* except Exception: return None
ExceptReturnNone(result) == IF result = Raise THEN None ELSE result

\* TemplateDetector.detect_template
detect_template(file) == ExceptReturnNone(detect_template_try(file))

\* TemplateDetector.detect_template_from_bytes
detect_template_from_bytes(file) == ExceptReturnNone(detect_template_from_bytes_try(file))

\* The files behind the sheets of the request model.
DataCells == <<"01.02.2023", "401", "501", "100,50">>

RivalHeaders ==
    << "vid dokument", "nomer dokument", "data dokument", "ime", "smetka debit",
       "smetka kredit", "stojnost", "obAsnenie na statiA" >>

RivalFile == File("default", "ok", RivalHeaders, <<DataCells>>)
RivalNarrowFile == File("default", "ok", SubSeq(RivalHeaders, 1, 7), <<DataCells>>)
AjurFile ==
    File("default", "ok", SubSeq(ajur_expected_keywords, 1, 9),
         <<DataCells \o <<"otklonenie">> >>)
MicroinvestFile == File("default", "ok", microinvest_expected_keywords, <<DataCells>>)
BusinessNavigatorFile == File("default", "ok", bn_expected_keywords, <<DataCells>>)
UniversumFile ==
    File("default", "ok",
         << "0", "1", "2", "3", "4", "5", "6", "7", "8", "9", "10", "11", "12",
            "13", "14", "15" >>,
         << <<"debit", "kredit", "suma">> >>)
UnknownFile == File("default", "ok", <<"ime", "grad", "telefon">>, <<>>)

\* --------------------------------------------------------------- sheets
\* A spreadsheet as the program sees it: what the template detector answers
\* for its file, the number of columns, and the rows of the data frame.  A row
\* carries the cells the parsers read and the number of its cells that
\* contain one of the parser's header keywords.
Row(date, debit, credit, amount, kw) ==
    [date |-> date, debit |-> debit, credit |-> credit, amount |-> amount, kw |-> kw]

GoodRow == Row("01.02.2023", "401", "501", "100,50", 0)
OtherRow == Row("2023-02-03", "NaN", "702", "20", 0)
NoAmountRow == Row("01.02.2023", "401", "501", "NaN", 0)
ZeroRow == Row("01.02.2023", "401", "501", "0", 0)
NoAccountRow == Row("01.02.2023", "NaN", "NaN", "100,50", 0)
BadDateRow == Row("n/a", "401", "501", "100,50", 0)
BadAmountRow == Row("01.02.2023", "401", "501", "n/a", 0)
TinyRow == Row("01.02.2023", "401", "501", "0,004", 0)
HeaderRow == Row("data", "debit", "kredit", "suma", 8)

Sheet(file, ncols, rows) ==
    [detected |-> detect_template_from_bytes(file), ncols |-> ncols, rows |-> rows]

RivalSheet == Sheet(RivalFile, 8, <<HeaderRow, GoodRow, NoAmountRow, OtherRow>>)
RivalNarrowSheet == Sheet(RivalNarrowFile, 7, <<GoodRow>>)
RivalEmptySheet == Sheet(RivalFile, 8, <<ZeroRow, NoAccountRow, BadDateRow>>)
RivalTinySheet == Sheet(RivalFile, 8, <<GoodRow, ZeroRow, TinyRow>>)
AjurSheet == Sheet(AjurFile, 9, <<GoodRow>>)
MicroinvestSheet == Sheet(MicroinvestFile, 20, <<GoodRow>>)
BusinessNavigatorSheet == Sheet(BusinessNavigatorFile, 52, <<GoodRow>>)
UniversumSheet == Sheet(UniversumFile, 16, <<GoodRow>>)
UnknownSheet == Sheet(UnknownFile, 3, <<>>)
Sheets == {RivalSheet, RivalNarrowSheet, RivalEmptySheet, RivalTinySheet, AjurSheet,
           MicroinvestSheet, BusinessNavigatorSheet, UniversumSheet, UnknownSheet}

\* ------------------------------------------------------- parser helpers
\* An error raised inside a conversion helper.
ValueError == <<"ValueError", "raised">>

\* Variant: no handler, the error leaves the helper.
NotCaught(result) == result

\* except Exception: return None, the handler of the conversion helpers
CaughtAsNone(result) == IF result = ValueError THEN None ELSE result

\* The try block of convert_to_date: the four formats, then pd.to_datetime.
convert_to_date_try(cell) ==
    IF cell = "01.02.2023" THEN Some("2023-02-01")
    ELSE IF cell = "2023-02-03" THEN Some("2023-02-03")
    ELSE ValueError

\* BaseExcelParser.convert_to_date
convert_to_date(cell) ==
    IF cell = "NaN" THEN None ELSE CaughtAsNone(convert_to_date_try(cell))

\* The try block of clean_numeric: float() of the cleaned text.
clean_numeric_try(cell) ==
    IF cell = "100,50" THEN Some(100500)
    ELSE IF cell = "20" THEN Some(20000)
    ELSE IF cell = "0" THEN Some(0)
    ELSE IF cell = "0,004" THEN Some(4)
    ELSE ValueError

\* BaseExcelParser.clean_numeric: amounts in thousandths
clean_numeric(cell) ==
    IF cell = "NaN" THEN None ELSE CaughtAsNone(clean_numeric_try(cell))

\* BaseExcelParser.clean_string
clean_string(cell) == IF cell = "NaN" \/ cell = "" THEN None ELSE Some(cell)

\* Variant: no cell counts as empty.
isna_never(cell) == FALSE

\* pd.isna
isna(cell) == cell = "NaN"

\* Python truthiness of an Optional[date]
DateTruthy(opt) == opt # None

\* Variant: the amount is tested for absence only.
NumPresent(opt) == opt # None

\* Python truthiness of an Optional[float]: None and 0.0 are false
NumTruthy(opt) == opt # None /\ opt[1] # 0

\* _find_data_start_row: i + 1 for the first of the first ten rows with at
\* least four header matches, 0 when there is none.  Rows are indexed from 0
\* in the source and from 1 here.
RECURSIVE FindFrom(_, _)
FindFrom(rows, i) ==
    IF i > Min(10, Len(rows)) THEN 0
    ELSE IF rows[i].kw >= 4 THEN i
    ELSE FindFrom(rows, i + 1)

find_data_start_row(rows) == FindFrom(rows, 1)

\* header_keywords of RivalParser and of AjurParser
rival_header_keywords ==
    <<"vid", "dokument", "nomer", "data", "debit", "kredit", "suma", "obAsnenie">>

ajur_header_keywords ==
    <<"vid", "nomer", "data", "debit", "kredit", "analitiqna", "suma", "obAsnenie">>

\* matches: sum(any(keyword in val for keyword in header_keywords)
\*              for val in row_values)
HeaderMatches(cells, header_keywords) ==
    LET row_values == RowValues(cells)
    IN Cardinality({j \in 1..Len(row_values) :
                       \E k \in 1..Len(header_keywords) :
                          Contains(row_values[j], header_keywords[k])})

\* The rows of a frame of text cells, each with its number of matches.
Matched(frame, header_keywords) ==
    [i \in 1..Len(frame) |-> [kw |-> HeaderMatches(frame[i], header_keywords)]]

\* The row loop of RivalParser.parse / AjurParser.parse.  amountIdx and
\* lastIdx are the largest column positions read before and after the first
\* skip test; reading past the sheet's columns raises IndexError, which ends
\* the loop, as does an error that leaves a conversion helper.  The result
\* is the list built so far and whether it raised.
RECURSIVE ParseRows(_, _, _, _, _, _, _)
ParseRows(rows, i, ncols, amountIdx, lastIdx, tag, file_id) ==
    IF i > Len(rows) THEN [raised |-> FALSE, ops |-> <<>>]
    ELSE IF ncols <= amountIdx THEN [raised |-> TRUE, ops |-> <<>>]
    ELSE LET row == rows[i]
             rest == ParseRows(rows, i + 1, ncols, amountIdx, lastIdx, tag, file_id)
         IN IF isna(row.amount) \/ (isna(row.debit) /\ isna(row.credit)) THEN rest
            ELSE IF ncols <= lastIdx THEN [raised |-> TRUE, ops |-> <<>>]
            ELSE LET operation_date == convert_to_date(row.date)
                     amount == clean_numeric(row.amount)
                 IN IF operation_date = ValueError \/ amount = ValueError
                    THEN [raised |-> TRUE, ops |-> <<>>]
                    ELSE IF ~DateTruthy(operation_date) \/ ~NumTruthy(amount) THEN rest
                    ELSE [raised |-> rest.raised,
                          ops |-> <<[file_id |-> file_id,
                                     operation_date |-> operation_date[1],
                                     debit_account |-> clean_string(row.debit),
                                     credit_account |-> clean_string(row.credit),
                                     amount |-> amount[1],
                                     template_type |-> tag,
                                     raw_data |-> row]>> \o rest.ops]

\* The body of parse inside its try block.
ParseBody(sheet, amountIdx, lastIdx, tag, file_id) ==
    LET data_start_row == find_data_start_row(sheet.rows)
        df == SubSeq(sheet.rows, data_start_row + 1, Len(sheet.rows))
    IN ParseRows(df, 1, sheet.ncols, amountIdx, lastIdx, tag, file_id)

\* RivalParser.parse: any exception is swallowed and an empty list returned.
RivalParse(sheet, file_id) ==
    LET res == ParseBody(sheet, 6, 7, "rival", file_id)
    IN IF res.raised THEN <<>> ELSE res.ops

\* AjurParser.parse
AjurParse(sheet, file_id) ==
    LET res == ParseBody(sheet, 7, 8, "ajur", file_id)
    IN IF res.raised THEN <<>> ELSE res.ops

\* Variant: a parser is registered for the Microinvest template as well.
HasParserMicroinvest(template_type) == template_type \in {RIVAL, AJUR, MICROINVEST}

\* FileProcessor.parsers: the templates that have a parser
HasParser(template_type) == template_type \in {RIVAL, AJUR}

\* parser.parse(file_record.file_path, file_id) for the selected parser
Parse(template_type, sheet, file_id) ==
    IF template_type = RIVAL THEN RivalParse(sheet, file_id) ELSE AjurParse(sheet, file_id)

\* whether the selected parser's try block ran to its end on this sheet
ParseSucceeds(template_type, sheet) ==
    IF template_type = RIVAL THEN ~ParseBody(sheet, 6, 7, "rival", 0).raised
    ELSE ~ParseBody(sheet, 7, 8, "ajur", 0).raised

\* ------------------------------------------------------------------ state
VARIABLES
    uploadedfile,         \* table uploadedfile: id -> row (committed state)
    accountingoperation,  \* table accountingoperation: set of rows (committed)
    file_seq,             \* next value of the uploadedfile id sequence
    op_seq,               \* next value of the accountingoperation id sequence
    bucket,               \* object store: key -> stored content
    uuids,                \* number of uuid4 values drawn so far
    local_disk,           \* files of the working directory: path -> content
    req,                  \* request slots: handler position and session state
    response,             \* the answer sent last
    calls,                \* number of requests received so far
    stored,               \* history: keys whose object the store accepted
    last_process,         \* history: file id -> last answer of its process route
    minio,                \* init_minio_bucket: position, retries, attempts, result
    detection,            \* TemplateDetector: the sheet given last and the answer
    parsing               \* parsers: the call made last and its result

vars == <<uploadedfile, accountingoperation, file_seq, op_seq, bucket, uuids,
          local_disk, req, response, calls, stored, last_process, minio, detection,
          parsing>>

\* The state of the request handlers, and the state of the components that
\* run apart from them (start-up, the detector and the parsers on their own).
service == <<uploadedfile, accountingoperation, file_seq, op_seq, bucket, uuids,
             local_disk, req, response, calls, stored, last_process>>
apart == <<minio, detection, parsing>>

db == <<uploadedfile, accountingoperation, file_seq, op_seq>>
s3 == <<bucket, uuids, stored>>

NoKey == <<>>
NoSheet == [detected |-> None, ncols |-> 0, rows |-> <<>>]

\* A slot that holds no request.
Idle ==
    [kind |-> "none", pc |-> "idle", file_id |-> 0,
     filename |-> <<>>, contents |-> NoSheet, template_type |-> "",
     s3_key |-> NoKey, operations |-> <<>>, loaded |-> {},
     parsed |-> "", s3_outcome |-> "", session |-> "closed"]

\* No answer yet.
NoAnswer ==
    [kind |-> "none", file_id |-> 0, status |-> 0, detail |-> "", total |-> -1,
     processed |-> FALSE, filename |-> <<>>, template_type |-> "", s3_key |-> NoKey,
     items |-> <<>>, query |-> <<>>, path |-> <<>>,
     committed |-> FALSE, parsed |-> "", s3_outcome |-> ""]

Free(r) == req[r].pc = "idle"

\* A request arrives and is served in the first slot that holds no running
\* request.
Receive(r) ==
    /\ Free(r)
    /\ \A q \in 1..(r - 1) : ~Free(q)
    /\ calls < MaxCalls
    /\ calls' = calls + 1

\* An answer of a handler: the status, the detail of an error, and for the
\* checks what the handler had done when it answered.
Answer(kind, file_id, status, detail) ==
    [NoAnswer EXCEPT !.kind = kind, !.file_id = file_id,
                     !.status = status, !.detail = detail]

\* Variant: no try / finally, the session is closed only after a handler
\* that returned normally.
get_db_no_finally(status) == IF status >= 400 THEN "open" ELSE "closed"

\* deps.get_db after the yield: the finally clause closes the session
\* whether the handler returned or raised.
get_db_finally(status) == "closed"

\* The handler in slot r answers and the request finishes.
Reply(r, answer) ==
    /\ response' = answer
    /\ req' = [req EXCEPT ![r] = [Idle EXCEPT !.session = get_db_finally(answer.status)]]

\* No call of the template detector has been made.
NoDetection == <<>>

\* No call of a parser has been made.
NoParsing == <<>>

\* init_minio_bucket before its first statement.
NotStarted == [pc |-> "start", retries |-> 0, attempts |-> <<>>, result |-> ""]

Init ==
    /\ uploadedfile = <<>>
    /\ accountingoperation = {}
    /\ file_seq = 1
    /\ op_seq = 1
    /\ bucket = <<>>
    /\ uuids = 0
    /\ local_disk = <<>>
    /\ req = [r \in Req |-> Idle]
    /\ response = NoAnswer
    /\ calls = 0
    /\ stored = {}
    /\ last_process = <<>>
    /\ minio = NotStarted
    /\ detection = NoDetection
    /\ parsing = NoParsing

\* ------------------------------------------------------------ table access
\* db.query(AccountingOperation).filter(file_id == id).all()
OperationsOf(ops, id) == {o \in ops : o.op.file_id = id}

Remove(f, k) == [x \in DOMAIN f \ {k} |-> f[x]]

\* FileProcessor.create_file: the row inserted by add + commit
create_file(files, id, filename, template_type, file_path) ==
    files @@ (id :> [filename |-> filename, template_type |-> template_type,
                     processed |-> FALSE, file_path |-> file_path])

\* uuid4 + file name: the object key
S3Key(n, filename) == <<n>> \o filename

\* ------------------------------------------------------ POST /files/upload
\* Lines 31-63: extension test, read, template detection (contents.detected
\* is detect_template_from_bytes of the uploaded file), key generation.
UploadBegin(r, filename, contents) ==
    /\ Receive(r)
    /\ IF ~ValidExtension(filename)
       THEN /\ Reply(r, [Answer("upload", 0, 400, "Invalid file format")
                            EXCEPT !.filename = filename])
            /\ UNCHANGED uuids
       ELSE IF contents.detected = None
       THEN /\ Reply(r, [Answer("upload", 0, 400, "Could not recognize")
                            EXCEPT !.filename = filename])
            /\ UNCHANGED uuids
       ELSE /\ uuids < MaxUploads
            /\ uuids' = uuids + 1
            /\ req' = [req EXCEPT ![r] =
                    [Idle EXCEPT !.session = "open", !.kind = "upload", !.pc = "u_s3",
                                 !.filename = filename, !.contents = contents,
                                 !.template_type = contents.detected[1],
                                 !.s3_key = S3Key(uuids + 1, filename)]]
            /\ UNCHANGED response
    /\ UNCHANGED <<db, bucket, stored, local_disk, last_process, apart>>

S3Outcomes == {"ok", "ClientError", "error"}

\* Variant: a ClientError is reported as success.
S3UploadResultOptimistic(outcome) ==
    IF outcome = "error" THEN "raise" ELSE "True"

\* S3Service.upload_file: (True, message) when the client stored the object,
\* (False, message) on ClientError; any other error of the client is raised.
S3UploadResult(outcome) ==
    IF outcome = "ok" THEN "True" ELSE IF outcome = "ClientError" THEN "False" ELSE "raise"

\* Lines 65-73: the storage call and the test of its result.
UploadS3(r, outcome) ==
    /\ req[r].pc = "u_s3"
    /\ IF outcome = "ok"
       THEN /\ bucket' = (req[r].s3_key :> req[r].contents) @@ bucket
            /\ stored' = stored \cup {req[r].s3_key}
       ELSE UNCHANGED <<bucket, stored>>
    /\ LET res == S3UploadResult(outcome)
       IN IF res = "True"
          THEN /\ req' = [req EXCEPT ![r].pc = "u_create", ![r].s3_outcome = outcome]
               /\ UNCHANGED response
          ELSE Reply(r, [Answer("upload", 0, 500,
                                IF res = "False" THEN "Failed to upload file to storage"
                                ELSE "Internal Server Error")
                            EXCEPT !.filename = req[r].filename,
                                   !.s3_outcome = outcome])
    /\ UNCHANGED <<calls, db, uuids, local_disk, last_process, apart>>

\* Lines 75-83: FileProcessor.create_file and the answer.
UploadCreate(r) ==
    /\ req[r].pc = "u_create"
    /\ uploadedfile' = create_file(uploadedfile, file_seq, req[r].filename,
                                   req[r].template_type, req[r].s3_key)
    /\ file_seq' = file_seq + 1
    /\ Reply(r, [Answer("upload", file_seq, 200, "")
                    EXCEPT !.filename = req[r].filename,
                           !.template_type = req[r].template_type,
                           !.s3_key = req[r].s3_key,
                           !.s3_outcome = req[r].s3_outcome])
    /\ UNCHANGED <<calls, accountingoperation, op_seq, s3, local_disk, last_process, apart>>

\* ------------------------------------------------------------ environment
\* No route writes the working directory, but os.path.exists and
\* pd.read_excel read it: a copy of a stored object can appear under its key
\* (the bucket synchronised into the working directory).
LocalCopy(k) ==
    /\ k \in DOMAIN bucket
    /\ k \notin DOMAIN local_disk
    /\ local_disk' = (k :> bucket[k]) @@ local_disk
    /\ UNCHANGED <<calls, db, s3, req, response, last_process, apart>>

\* ------------------------------------------------- POST /files/{id}/process
\* The answer of the process route, remembered per file.
Remember(file_id, status, total) ==
    (file_id :> [status |-> status, total |-> total]) @@ last_process

\* Lines 96-114: the file query, 404, and the early return for a file that
\* is already processed.
ProcessCheck(r, file_id) ==
    /\ Receive(r)
    /\ IF file_id \notin DOMAIN uploadedfile
       THEN /\ Reply(r, Answer("process", file_id, 404, "File not found"))
            /\ UNCHANGED last_process
       ELSE IF uploadedfile[file_id].processed
       THEN LET total == Cardinality(OperationsOf(accountingoperation, file_id))
            IN /\ Reply(r, [Answer("process", file_id, 200, "") EXCEPT
                               !.total = total, !.processed = TRUE])
               /\ last_process' = Remember(file_id, 200, total)
       ELSE /\ req' = [req EXCEPT ![r] =
                    [Idle EXCEPT !.session = "open", !.kind = "process", !.pc = "fp_query",
                                 !.file_id = file_id,
                                 !.template_type = uploadedfile[file_id].template_type,
                                 !.s3_key = uploadedfile[file_id].file_path]]
            /\ UNCHANGED <<response, last_process>>
    /\ UNCHANGED <<db, s3, local_disk, apart>>

\* The route's answer when FileProcessor.process_file returned None or an
\* empty list (lines 120-124).
ProcessFailed(r, committed) ==
    [Answer("process", req[r].file_id, 500, "Failed to process file") EXCEPT
        !.committed = committed, !.parsed = req[r].parsed]

\* FileProcessor.process_file lines 68-94: the file query, the existence
\* test of the path, the parser lookup, the parse, and the session changes
\* that wait for the commit.
FpParse(r) ==
    /\ req[r].pc = "fp_query"
    /\ LET id == req[r].file_id
           path == req[r].s3_key
       IN IF \/ id \notin DOMAIN uploadedfile
             \/ path \notin DOMAIN local_disk
             \/ ~HasParser(req[r].template_type)
          THEN /\ Reply(r, ProcessFailed(r, FALSE))
               /\ last_process' = Remember(id, 500, -1)
          ELSE /\ req' = [req EXCEPT ![r].pc = "fp_commit",
                                     ![r].operations =
                                         Parse(req[r].template_type, local_disk[path], id),
                                     ![r].parsed =
                                         IF ParseSucceeds(req[r].template_type, local_disk[path])
                                         THEN "ok" ELSE "raised"]
               /\ UNCHANGED <<response, last_process>>
    /\ UNCHANGED <<calls, db, s3, local_disk, apart>>

\* Column amount, Numeric(15, 2): the value is kept with two decimals.
\* Amounts are in thousandths and not negative.
Numeric_15_2(amount) == ((amount + 5) \div 10) * 10

\* The row of the table for an operation of the parser.
AccountingOperation(operation_data) ==
    [operation_data EXCEPT !.amount = Numeric_15_2(@)]

\* The rows inserted for a list of operations, ids from the sequence.
NewRows(operations, seq) ==
    {[id |-> seq + i - 1, op |-> AccountingOperation(operations[i])] :
        i \in 1..Len(operations)}

\* Variant: a failed commit leaves the inserted rows behind (no rollback).
process_commit_no_rollback(files, ops, seq, file_id, operations, db_ok) ==
    IF db_ok /\ file_id \in DOMAIN files
    THEN [ok |-> TRUE,
          files |-> [files EXCEPT ![file_id].processed = TRUE],
          ops |-> ops \cup NewRows(operations, seq),
          seq |-> seq + Len(operations)]
    ELSE [ok |-> FALSE, files |-> files,
          ops |-> ops \cup NewRows(operations, seq),
          seq |-> seq + Len(operations)]

\* Variant: every insert is committed on its own and the last one is lost
\* with the flag already set.
process_commit_partial(files, ops, seq, file_id, operations, db_ok) ==
    IF db_ok /\ file_id \in DOMAIN files
    THEN [ok |-> TRUE,
          files |-> [files EXCEPT ![file_id].processed = TRUE],
          ops |-> ops \cup NewRows(SubSeq(operations, 1, Len(operations) - 1), seq),
          seq |-> seq + Len(operations)]
    ELSE [ok |-> FALSE, files |-> files, ops |-> ops, seq |-> seq]

\* Variant: the inserts are conditional on the row not being processed yet.
process_commit_guarded(files, ops, seq, file_id, operations, db_ok) ==
    IF db_ok /\ file_id \in DOMAIN files
    THEN [ok |-> TRUE,
          files |-> [files EXCEPT ![file_id].processed = TRUE],
          ops |-> IF files[file_id].processed THEN ops
                  ELSE ops \cup NewRows(operations, seq),
          seq |-> seq + Len(operations)]
    ELSE [ok |-> FALSE, files |-> files, ops |-> ops, seq |-> seq]

\* The unit of work of process_file (lines 88-97, 101-102): the inserts and
\* the UPDATE of the processed flag, committed together.  db_ok is FALSE when
\* the database fails the flush or the commit; the UPDATE of a row that is
\* gone raises StaleDataError.  A failure is rolled back.
process_commit(files, ops, seq, file_id, operations, db_ok) ==
    IF db_ok /\ file_id \in DOMAIN files
    THEN [ok |-> TRUE,
          files |-> [files EXCEPT ![file_id].processed = TRUE],
          ops |-> ops \cup NewRows(operations, seq),
          seq |-> seq + Len(operations)]
    ELSE [ok |-> FALSE, files |-> files, ops |-> ops, seq |-> seq]

\* FileProcessor.process_file lines 96-104 and the route's test of the
\* result (lines 120-124).
FpCommit(r, db_ok) ==
    /\ req[r].pc = "fp_commit"
    /\ LET id == req[r].file_id
           res == process_commit(uploadedfile, accountingoperation, op_seq, id,
                                 req[r].operations, db_ok)
       IN /\ uploadedfile' = res.files
          /\ accountingoperation' = res.ops
          /\ op_seq' = res.seq
          /\ IF res.ok /\ req[r].operations # <<>>
             THEN /\ req' = [req EXCEPT ![r].pc = "p_requery"]
                  /\ UNCHANGED <<response, last_process>>
             ELSE /\ Reply(r, ProcessFailed(r, res.ok))
                  /\ last_process' = Remember(id, 500, -1)
    /\ UNCHANGED <<calls, file_seq, s3, local_disk, apart>>

\* Lines 126-131: the saved operations are read back and returned.
ProcessRespond(r) ==
    /\ req[r].pc = "p_requery"
    /\ LET id == req[r].file_id
           total == Cardinality(OperationsOf(accountingoperation, id))
       IN /\ Reply(r, [Answer("process", id, 200, "") EXCEPT
                          !.total = total, !.committed = TRUE,
                          !.parsed = req[r].parsed])
          /\ last_process' = Remember(id, 200, total)
    /\ UNCHANGED <<calls, db, s3, local_disk, apart>>

\* ------------------------------------------------------------------ readers
\* Variant: the query result is used without the test for a missing file.
GetFileUnchecked(r, file_id) ==
    /\ Receive(r)
    /\ IF file_id \notin DOMAIN uploadedfile
       THEN Reply(r, Answer("get_file", file_id, 500, "Internal Server Error"))
       ELSE Reply(r, [Answer("get_file", file_id, 200, "") EXCEPT
                         !.template_type = uploadedfile[file_id].template_type,
                         !.s3_key = uploadedfile[file_id].file_path,
                         !.processed = uploadedfile[file_id].processed,
                         !.total = Cardinality(OperationsOf(accountingoperation,
                                                            file_id))])
    /\ UNCHANGED <<db, s3, local_disk, last_process, apart>>

\* GET /files/{id}: the file with its operation count, read in one query.
GetFile(r, file_id) ==
    /\ Receive(r)
    /\ IF file_id \notin DOMAIN uploadedfile
       THEN Reply(r, Answer("get_file", file_id, 404, "File not found"))
       ELSE Reply(r, [Answer("get_file", file_id, 200, "") EXCEPT
                         !.template_type = uploadedfile[file_id].template_type,
                         !.s3_key = uploadedfile[file_id].file_path,
                         !.processed = uploadedfile[file_id].processed,
                         !.total = Cardinality(OperationsOf(accountingoperation,
                                                            file_id))])
    /\ UNCHANGED <<db, s3, local_disk, last_process, apart>>

\* The query parameters of GET /files/ that callers send: template_type
\* ("" when left out) and processed (None when left out); skip and limit keep
\* their defaults 0 and 100.
TemplateFilters == {"", RIVAL}
ProcessedFilters == {None, Some(FALSE)}

\* The identifiers of ids from the latest upload to the earliest
\* (order_by upload_date desc).
RECURSIVE Descending(_)
Descending(ids) ==
    IF ids = {} THEN <<>>
    ELSE LET top == CHOOSE i \in ids : \A j \in ids : j <= i
         IN <<top>> \o Descending(ids \ {top})

\* get_files: the filtered query, its count and its rows.
get_files(files, template_type, processed) ==
    LET ids == {id \in DOMAIN files :
                   /\ template_type = "" \/ files[id].template_type = template_type
                   /\ processed = None \/ files[id].processed = processed[1]}
        order == Descending(ids)
    IN [items |-> [i \in 1..Len(order) |->
                      [id |-> order[i],
                       filename |-> files[order[i]].filename,
                       template_type |-> files[order[i]].template_type,
                       processed |-> files[order[i]].processed]],
        total |-> Cardinality(ids)]

\* GET /files/
GetFiles(r, template_type, processed) ==
    /\ Receive(r)
    /\ LET res == get_files(uploadedfile, template_type, processed)
       IN Reply(r, [Answer("get_files", 0, 200, "") EXCEPT
                       !.query = <<template_type, processed>>,
                       !.items = res.items, !.total = res.total])
    /\ UNCHANGED <<db, s3, local_disk, last_process, apart>>

\* GET /operations/?file_id=id: the operations joined with their files,
\* filtered by file id; total is the count of the filtered query.
get_operations(files, ops, file_id) ==
    LET joined == {o \in ops : o.op.file_id \in DOMAIN files}
    IN Cardinality(OperationsOf(joined, file_id))

GetOperations(r, file_id) ==
    /\ Receive(r)
    /\ Reply(r, [Answer("get_operations", file_id, 200, "") EXCEPT
                    !.total = get_operations(uploadedfile, accountingoperation,
                                             file_id)])
    /\ UNCHANGED <<db, s3, local_disk, last_process, apart>>

\* GET /operations/{operation_id}: one operation by its identifier, 404 when
\* there is none.  The answer's file_id field holds the identifier asked for.
GetOperation(r, operation_id) ==
    /\ Receive(r)
    /\ IF \E o \in accountingoperation : o.id = operation_id
       THEN Reply(r, Answer("get_operation", operation_id, 200, ""))
       ELSE Reply(r, Answer("get_operation", operation_id, 404, "Operation not found"))
    /\ UNCHANGED <<db, s3, local_disk, last_process, apart>>

\* ------------------------------------------------- GET /operations/<path>
\* The GET routes of operations.router in their registration order.  A path
\* is the sequence of its segments after the prefix /operations.
OperationRoutes ==
    << [path |-> <<>>, endpoint |-> "get_operations"],
       [path |-> <<"{operation_id}">>, endpoint |-> "get_operation"],
       [path |-> <<"statistics", "summary">>, endpoint |-> "get_operations_summary"],
       [path |-> <<"export">>, endpoint |-> "export_operations"] >>

\* A path parameter matches any segment: the declared type is applied to the
\* value only after the route is chosen.
IsParam(segment) == Len(segment) > 0 /\ SubSeq(segment, 1, 1) = "{"

Matches(pattern, path) ==
    /\ Len(pattern) = Len(path)
    /\ \A i \in 1..Len(pattern) : IsParam(pattern[i]) \/ pattern[i] = path[i]

\* The router takes the first route that matches, 0 when none does.
RECURSIVE FirstMatch(_, _, _)
FirstMatch(routes, path, i) ==
    IF i > Len(routes) THEN 0
    ELSE IF Matches(routes[i].path, path) THEN i
    ELSE FirstMatch(routes, path, i + 1)

\* operation_id: int, the validation of the path parameter
DigitChars == <<"0", "1", "2", "3", "4", "5", "6", "7", "8", "9">>

IsInt(segment) ==
    /\ Len(segment) > 0
    /\ \A i \in 1..Len(segment) :
          \E d \in 1..10 : SubSeq(segment, i, i) = DigitChars[d]

RECURSIVE IntOf(_)
IntOf(segment) ==
    IF Len(segment) = 0 THEN 0
    ELSE LET last == SubSeq(segment, Len(segment), Len(segment))
             d == CHOOSE n \in 1..10 : DigitChars[n] = last
         IN 10 * IntOf(SubSeq(segment, 1, Len(segment) - 1)) + (d - 1)

\* The message of export_operations.
ExportMessage == "Export functionality will be implemented in a future version."

OperationPaths == {<<"1">>, <<"export">>}

\* GET /operations/<path> for a path of one segment: the route is chosen,
\* the parameter validated (422 when it is not an integer) and the endpoint
\* called; export_operations answers its message and the filter received.
GetOperationsPath(r, path, template_type) ==
    LET route == FirstMatch(OperationRoutes, path, 1)
    IN /\ route # 0
       /\ OperationRoutes[route].endpoint \in {"get_operation", "export_operations"}
       /\ IF OperationRoutes[route].endpoint = "get_operation"
          THEN IF IsInt(path[1])
               THEN GetOperation(r, IntOf(path[1]))
               ELSE /\ Receive(r)
                    /\ Reply(r, [Answer("get_operation", 0, 422,
                                        "value is not a valid integer")
                                    EXCEPT !.path = path])
                    /\ UNCHANGED <<db, s3, local_disk, last_process, apart>>
          ELSE /\ Receive(r)
               /\ Reply(r, [Answer("export_operations", 0, 200, ExportMessage)
                               EXCEPT !.path = path, !.query = <<template_type>>])
               /\ UNCHANGED <<db, s3, local_disk, last_process, apart>>

\* ---------------------------------------------------- DELETE /files/{id}
\* Lines 208-216: the file query and 404.
DeleteQuery(r, file_id) ==
    /\ Receive(r)
    /\ IF file_id \notin DOMAIN uploadedfile
       THEN Reply(r, Answer("delete", file_id, 404, "File not found"))
       ELSE /\ req' = [req EXCEPT ![r] =
                    [Idle EXCEPT !.session = "open", !.kind = "delete",
                                 !.pc = "d_s3", !.file_id = file_id,
                                 !.s3_key = uploadedfile[file_id].file_path]]
            /\ UNCHANGED response
    /\ UNCHANGED <<db, s3, local_disk, last_process, apart>>

\* S3Service.delete_file: (True, message), (False, message) on ClientError,
\* any other error of the client is raised.
S3DeleteResult(outcome) ==
    IF outcome = "ok" THEN "True" ELSE IF outcome = "ClientError" THEN "False" ELSE "raise"

\* Variant: no try / except, an error raised by the storage call ends the
\* request.
AfterS3DeleteUncaught(result) == IF result = "raise" THEN "fail" ELSE "d_delete"

\* The try / except around the storage deletion (lines 219-224): what the
\* handler does next for each result of S3Service.delete_file.
AfterS3Delete(result) == "d_delete"

\* Lines 218-224: the best-effort deletion of the stored object.
DeleteS3(r, outcome) ==
    /\ req[r].pc = "d_s3"
    /\ bucket' = IF outcome = "ok" THEN Remove(bucket, req[r].s3_key) ELSE bucket
    /\ LET next == AfterS3Delete(S3DeleteResult(outcome))
       IN IF next = "d_delete"
          THEN /\ req' = [req EXCEPT ![r].pc = "d_delete", ![r].s3_outcome = outcome]
               /\ UNCHANGED response
          ELSE Reply(r, [Answer("delete", req[r].file_id, 500, "Internal Server Error")
                            EXCEPT !.s3_outcome = outcome])
    /\ UNCHANGED <<calls, db, uuids, stored, local_disk, last_process, apart>>

\* Line 227, db.delete(file): the delete cascade loads the file's operations
\* and marks them for deletion with the file.
DeleteMark(r) ==
    /\ req[r].pc = "d_delete"
    /\ req' = [req EXCEPT ![r].pc = "d_commit",
                          ![r].loaded = {o.id : o \in OperationsOf(accountingoperation,
                                                                  req[r].file_id)}]
    /\ UNCHANGED <<calls, db, s3, local_disk, response, last_process, apart>>

\* Variant: only the file row is deleted, no cascade and no foreign key.
delete_commit_no_cascade(files, ops, file_id, loaded) ==
    [ok |-> TRUE, files |-> Remove(files, file_id), ops |-> ops]

\* The unit of work of delete_file (line 228): DELETE of the loaded
\* operations, then of the file row.  The foreign key of
\* accountingoperation.file_id refuses the DELETE of a file row that an
\* operation not among the loaded ones still references; the failure rolls
\* the whole unit back.
delete_commit(files, ops, file_id, loaded) ==
    IF \E o \in OperationsOf(ops, file_id) : o.id \notin loaded
    THEN [ok |-> FALSE, files |-> files, ops |-> ops]
    ELSE [ok |-> TRUE,
          files |-> Remove(files, file_id),
          ops |-> {o \in ops : o.id \notin loaded}]

\* Line 228 and the answer.
DeleteCommit(r) ==
    /\ req[r].pc = "d_commit"
    /\ LET id == req[r].file_id
           res == delete_commit(uploadedfile, accountingoperation, id, req[r].loaded)
       IN /\ uploadedfile' = res.files
          /\ accountingoperation' = res.ops
          /\ Reply(r, [Answer("delete", id, IF res.ok THEN 204 ELSE 500,
                              IF res.ok THEN "" ELSE "Internal Server Error")
                          EXCEPT !.s3_outcome = req[r].s3_outcome,
                                 !.total = Cardinality(req[r].loaded)])
    /\ UNCHANGED <<calls, file_seq, op_seq, s3, local_disk, last_process, apart>>

\* ------------------------------------------------------------ specification
Step(r) ==
    \/ \E filename \in Filenames, contents \in Sheets : UploadBegin(r, filename, contents)
    \/ \E outcome \in S3Outcomes : UploadS3(r, outcome)
    \/ UploadCreate(r)
    \/ \E file_id \in 1..file_seq : ProcessCheck(r, file_id)
    \/ FpParse(r)
    \/ \E db_ok \in BOOLEAN : FpCommit(r, db_ok)
    \/ ProcessRespond(r)
    \/ \E file_id \in 1..file_seq : GetFile(r, file_id)
    \/ \E template_type \in TemplateFilters, processed \in ProcessedFilters :
          GetFiles(r, template_type, processed)
    \/ \E file_id \in 1..file_seq : GetOperations(r, file_id)
    \/ \E operation_id \in 1..op_seq : GetOperation(r, operation_id)
    \/ \E path \in OperationPaths, template_type \in TemplateFilters :
          GetOperationsPath(r, path, template_type)
    \/ \E file_id \in 1..file_seq : DeleteQuery(r, file_id)
    \/ \E outcome \in S3Outcomes : DeleteS3(r, outcome)
    \/ DeleteMark(r)
    \/ DeleteCommit(r)

Environment == \E k \in DOMAIN bucket : LocalCopy(k)

\* Requests interleave freely.
Next == (\E r \in Req : Step(r)) \/ Environment

Spec == Init /\ [][Next]_vars

\* Requests arrive one after the other: one slot only.
NextSeq == (\E r \in SeqReq : Step(r)) \/ Environment

SeqSpec == Init /\ [][NextSeq]_vars

\* ----------------------------------------------------------------- start-up
MAX_RETRIES == 5

\* What the storage client does in head_bucket, create_bucket and the
\* head_bucket that verifies the creation: success, a ClientError (with the
\* error code for the first head_bucket), EndpointConnectionError, or any
\* other exception (which includes a failure to build the client).
HeadOutcomes == {"ok", "404", "403", "500", "EndpointConnectionError", "error"}
CallOutcomes == {"ok", "ClientError", "EndpointConnectionError", "error"}

\* Variant: the creation is not verified, the pass ends with create_bucket.
CallsUnverified(head, create, verify) ==
    IF head \notin {"404", "403"} THEN <<head>> ELSE <<head, create>>

\* The calls one pass of the loop makes, as far as it gets.
Calls(head, create, verify) ==
    IF head \notin {"404", "403"} THEN <<head>>
    ELSE IF create # "ok" THEN <<head, create>>
    ELSE <<head, create, verify>>

\* Variant: the handler of Exception comes first, a connection error ends
\* the initialisation like any other error.
PassResultNoRetry(head, create, verify) ==
    IF Calls(head, create, verify) \in {<<"ok">>, <<"404", "ok", "ok">>, <<"403", "ok", "ok">>}
    THEN "True" ELSE "False"

\* One pass of the while loop (lines 24-65): "True" and "False" are returned,
\* "retry" is the handler of EndpointConnectionError.
PassResult(head, create, verify) ==
    LET calls_made == Calls(head, create, verify)
        last == calls_made[Len(calls_made)]
    IN IF last = "ok" THEN "True"
       ELSE IF last = "EndpointConnectionError" THEN "retry"
       ELSE "False"

\* Lines 17-22: the USE_S3 test.
InitMinioStart(use_s3) ==
    /\ minio.pc = "start"
    /\ minio' = IF use_s3 THEN [minio EXCEPT !.pc = "loop"]
                ELSE [minio EXCEPT !.pc = "done", !.result = "None"]
    /\ UNCHANGED <<service, detection, parsing>>

\* Lines 23-67: one pass of the loop.
InitMinioPass(head, create, verify) ==
    /\ minio.pc = "loop"
    /\ minio.retries < MAX_RETRIES
    /\ LET res == PassResult(head, create, verify)
           attempts == Append(minio.attempts, Calls(head, create, verify))
       IN minio' =
            IF res = "retry"
            THEN IF minio.retries + 1 < MAX_RETRIES
                 THEN [minio EXCEPT !.retries = @ + 1, !.attempts = attempts]
                 ELSE [pc |-> "done", retries |-> minio.retries + 1,
                       attempts |-> attempts, result |-> "False"]
            ELSE [pc |-> "done", retries |-> minio.retries,
                  attempts |-> attempts, result |-> res]
    /\ UNCHANGED <<service, detection, parsing>>

StartupNext ==
    \/ \E use_s3 \in BOOLEAN : InitMinioStart(use_s3)
    \/ \E head \in HeadOutcomes, create \in CallOutcomes, verify \in CallOutcomes :
          InitMinioPass(head, create, verify)

StartupSpec == Init /\ [][StartupNext]_vars

\* ------------------------------------------------------- template detection
\* The detector keeps no state between calls: a behaviour makes one call,
\* on a file drawn from Files, and records the call and what came of it.
HeaderPool ==
    << "vid dokument", "nomer dokument", "data dokument", "smetka debit",
       "dokument: tip", "korespondenciA", "dt s/ka" >>

\* The headers of pool whose positions are in chosen, in the pool's order.
RECURSIVE Pick(_, _, _)
Pick(pool, chosen, i) ==
    IF i > Len(pool) THEN <<>>
    ELSE (IF i \in chosen THEN <<pool[i]>> ELSE <<>>) \o Pick(pool, chosen, i + 1)

RowsPool ==
    { <<>>,
      <<DataCells>>,
      <<DataCells \o <<"otklonenie">> >>,
      <<DataCells, <<"ustanoveno pri", "odita">> >>,
      <<DataCells, <<"ustanoveno naliqie na kontrolno dejstvie pri odita">> >>,
      << <<"hronologiqen opis">>, DataCells >>,
      << <<"hronologiqen opis">>, DataCells \o <<"otklonenie">> >> }

ReadOutcomes == {"default", "xlrd", "fails"}
AnalysisOutcomes == {"ok", "raises"}

\* An AJUR export without its last column.
AjurShortFile ==
    File("default", "ok", SubSeq(ajur_expected_keywords, 1, 15), <<DataCells>>)

AjurRivalFile ==
    File("default", "ok",
         ajur_expected_keywords \o <<"nomer dokument", "data dokument">>,
         <<DataCells>>)

\* Seven rows of metadata, then the header row of a Rival export.
RivalLateHeaderFile ==
    File("default", "ok", <<"0", "1", "2", "3", "4", "5", "6", "7">>,
         << <<"firma", NaN>>, <<NaN>>, <<NaN>>, <<NaN>>, <<NaN>>, <<NaN>>, <<NaN>>,
            RivalHeaders, DataCells >>)

\* The frame of test_detect_rival_template: columns named 0..7, the labels
\* of a Rival export in the first row, two rows of data (Latin words of the
\* cells in upper case).
UnnamedHeaders == <<"0", "1", "2", "3", "4", "5", "6", "7">>

RivalLabels ==
    << "vid dokument", "nomer na dokument", "data", "ime", "debit", "kredit",
       "suma", "obAsnenie" >>

RivalTestFile ==
    File("default", "ok", UnnamedHeaders,
         << RivalLabels,
            <<"fa", "123", "01.01.2023", "COMPANY A", "101", "201", "1000", "PAYMENT">>,
            <<"fa", "456", "02.01.2023", "COMPANY B", "102", "202", "2000", "INVOICE">> >>)

RivalLabelsOnlyFile == File("default", "ok", UnnamedHeaders, <<RivalLabels>>)

\* Headers of Business Navigator exports: every column, five columns of
\* the document, and these with one column or every column of an AJUR export.
BusinessNavigatorHeaders ==
    { bn_expected_keywords,
      SubSeq(bn_expected_keywords, 11, 15),
      SubSeq(bn_expected_keywords, 11, 15) \o <<"dt s/ka">>,
      SubSeq(bn_expected_keywords, 11, 15) \o ajur_expected_keywords }

Files ==
    { File(read, analysis, Pick(HeaderPool, chosen, 1), rows) :
         read \in ReadOutcomes, analysis \in AnalysisOutcomes,
         chosen \in SUBSET (1..Len(HeaderPool)), rows \in RowsPool }
    \cup { File("default", "ok", headers, rows) :
              headers \in BusinessNavigatorHeaders, rows \in RowsPool }
    \cup {RivalTestFile, RivalLabelsOnlyFile, AjurShortFile}
    \cup {RivalFile, RivalNarrowFile, RivalLateHeaderFile, AjurFile, AjurRivalFile,
          MicroinvestFile, BusinessNavigatorFile, UniversumFile, UnknownFile}

DetectTemplate(file) ==
    /\ detection = NoDetection
    /\ detection' = [entry |-> "detect_template", file |-> file,
                     result |-> detect_template(file)]
    /\ UNCHANGED <<service, minio, parsing>>

DetectTemplateFromBytes(file) ==
    /\ detection = NoDetection
    /\ detection' = [entry |-> "detect_template_from_bytes", file |-> file,
                     result |-> detect_template_from_bytes(file)]
    /\ UNCHANGED <<service, minio, parsing>>

DetectNext ==
    \/ \E file \in Files : DetectTemplate(file)
    \/ \E file \in Files : DetectTemplateFromBytes(file)

DetectSpec == Init /\ [][DetectNext]_vars

\* ------------------------------------------------------------------ parsers
\* The parsers keep no state between calls: a behaviour makes one call, of
\* parse on a sheet of at most MaxRows rows or of _find_data_start_row on a
\* frame of text cells, and records the call and its result.
MaxRows == 3

RowPool ==
    {GoodRow, OtherRow, NoAmountRow, ZeroRow, NoAccountRow, BadDateRow,
     BadAmountRow, TinyRow, HeaderRow}

ParseSheets ==
    { [ncols |-> ncols, rows |-> rows] :
         ncols \in {7, 8, 9},
         rows \in UNION {[1..n -> RowPool] : n \in 0..MaxRows} }

ParseSheet(template_type, sheet) ==
    /\ parsing = NoParsing
    /\ parsing' = [call |-> "parse", template_type |-> template_type,
                   sheet |-> sheet, result |-> Parse(template_type, sheet, 1)]
    /\ UNCHANGED <<service, minio, detection>>

\* Rows of text cells: the header of a Rival export, data, a row of four
\* cells with one keyword, a row of one cell with four keywords, a row with
\* three keywords and a row of four cells with a keyword each.
CellRows ==
    { RivalLabels,
      DataCells,
      <<"data", "data", "data", "data">>,
      <<"vid dokument nomer data">>,
      <<"debit", "kredit", "suma">>,
      <<"data", "suma", "debit 401", "kredit 501">> }

\* The header in row n of a frame of n rows, data before it.
HeaderAt(n) == [i \in 1..(n - 1) |-> DataCells] \o <<RivalLabels>>

Frames ==
    UNION {[1..n -> CellRows] : n \in 0..MaxRows} \cup {HeaderAt(10), HeaderAt(11)}

FindDataStartRow(template_type, frame) ==
    /\ parsing = NoParsing
    /\ parsing' =
          [call |-> "_find_data_start_row", template_type |-> template_type,
           frame |-> frame, rows |-> Len(frame),
           result |-> IF template_type = RIVAL
                      THEN find_data_start_row(Matched(frame, rival_header_keywords))
                      ELSE find_data_start_row(Matched(frame, ajur_header_keywords))]
    /\ UNCHANGED <<service, minio, detection>>

ParseNext ==
    \/ \E template_type \in {RIVAL, AJUR}, sheet \in ParseSheets :
          ParseSheet(template_type, sheet)
    \/ \E template_type \in {RIVAL, AJUR}, frame \in Frames :
          FindDataStartRow(template_type, frame)

ParseSpec == Init /\ [][ParseNext]_vars

\* ================================================================== claims
Answered(kind) == response.kind = kind

\* The operation list one processing run extracts for a stored file.
RunOf(f) == Parse(f.template_type, local_disk[f.file_path], 0)

\* The number of rows of file id that hold the i-th operation of a run.
Copies(ops, id, run, i) ==
    Cardinality({o \in OperationsOf(ops, id) :
                    [o.op EXCEPT !.file_id = 0] = AccountingOperation(run[i])})

\* The rows of file id are k complete copies of the run.
WholeRuns(ops, id, run, k) ==
    /\ Cardinality(OperationsOf(ops, id)) = k * Len(run)
    /\ \A i \in 1..Len(run) : Copies(ops, id, run, i) = k

\* C1: for every existing file, two successive process calls return the same
\* total and the second inserts nothing: a call that finds the file already
\* processed answers the total the preceding call on that file answered with
\* status 200, and leaves the operations table unchanged.
C1_IdempotentProcess ==
    [][(/\ calls' = calls + 1
        /\ req' = req
        /\ response'.kind = "process"
        /\ response'.processed)
       => /\ response'.file_id \in DOMAIN last_process
          /\ last_process[response'.file_id] =
                 [status |-> 200, total |-> response'.total]
          /\ accountingoperation' = accountingoperation]_vars

\* C2: a file row is created with processed = FALSE; the flag changes only
\* from FALSE to TRUE, only in the commit of a process_file run on that file,
\* and only when that run's parse succeeded.
C2_ProcessedOnlyAfterParse ==
    [][\A id \in DOMAIN uploadedfile' :
          /\ id \notin DOMAIN uploadedfile => ~uploadedfile'[id].processed
          /\ (id \in DOMAIN uploadedfile
               /\ uploadedfile'[id].processed # uploadedfile[id].processed)
             => /\ ~uploadedfile[id].processed
                /\ \E r \in Req : /\ req[r].pc = "fp_commit"
                                   /\ req'[r].pc # "fp_commit"
                                   /\ req[r].file_id = id
                                   /\ req[r].parsed = "ok"]_vars

\* C3: when the commit of process_file raises, the unit of work is rolled
\* back and the call reports failure: the step leaves both tables as they
\* were (flag not set, none of the run's operations stored) and the request
\* is answered 500.
C3_ExceptionRollsBack ==
    [][\A r \in Req :
          (/\ req[r].pc = "fp_commit"
           /\ req'[r].pc = "idle"
           /\ ~response'.committed)
          => /\ uploadedfile' = uploadedfile
             /\ accountingoperation' = accountingoperation
             /\ response'.kind = "process"
             /\ response'.file_id = req[r].file_id
             /\ response'.status = 500]_vars

C3_Witness ==
    /\ Answered("process")
    /\ response.status = 500
    /\ response.parsed = "ok"
    /\ ~response.committed
    /\ response.file_id \in DOMAIN uploadedfile
    /\ ~uploadedfile[response.file_id].processed
    /\ OperationsOf(accountingoperation, response.file_id) = {}

\* C4: whenever the process route answers 500, that call committed nothing:
\* neither the processed flag nor any operation.
C4_Status500MeansRolledBack ==
    (Answered("process") /\ response.status = 500) => ~response.committed

\* C5: every stored operation references an existing file, so listing the
\* operations of a deleted file returns no item.
C5_NoOrphanOperation ==
    /\ \A o \in accountingoperation : o.op.file_id \in DOMAIN uploadedfile
    /\ \A id \in 1..file_seq :
          id \notin DOMAIN uploadedfile
             => get_operations(uploadedfile, accountingoperation, id) = 0

C5_Witness ==
    /\ Answered("get_operations")
    /\ response.file_id < file_seq
    /\ response.file_id \notin DOMAIN uploadedfile
    /\ op_seq > 1
    /\ response.total = 0
    /\ accountingoperation = {}

\* C6: no partial result is ever visible: a stored file is either
\* unprocessed with no operation, or processed with every operation of each
\* committed run; and every answer of GET /files/{id} shows one of the two.
C6_NoPartialResult ==
    /\ \A id \in DOMAIN uploadedfile :
          IF uploadedfile[id].processed
          THEN /\ uploadedfile[id].file_path \in DOMAIN local_disk
               /\ \E k \in 1..MaxCalls :
                      WholeRuns(accountingoperation, id, RunOf(uploadedfile[id]), k)
          ELSE OperationsOf(accountingoperation, id) = {}
    /\ (Answered("get_file") /\ response.status = 200)
          => IF response.processed
             THEN \E k \in 1..MaxCalls :
                     response.total = k * Len(Parse(response.template_type,
                                                    local_disk[response.s3_key], 0))
             ELSE response.total = 0

C6_Witness ==
    /\ Answered("get_file")
    /\ response.status = 200
    /\ ~response.processed
    /\ response.total = 0
    /\ \E q \in Req :
          /\ req[q].pc = "fp_commit"
          /\ req[q].file_id = response.file_id
          /\ Len(req[q].operations) = 2

\* C7: nothing stops a run that passed the not-yet-processed check: its
\* commit, unless the database fails it, stores every extracted operation
\* even when the file has been marked processed in the meantime.
C7_SecondRunInserts ==
    [][\A r \in Req :
          (/\ req[r].pc = "fp_commit"
           /\ \/ req'[r].pc = "p_requery"
              \/ req'[r].pc = "idle" /\ response'.committed)
          => Cardinality(OperationsOf(accountingoperation', req[r].file_id))
                = Cardinality(OperationsOf(accountingoperation, req[r].file_id))
                  + Len(req[r].operations)]_vars

C7_Witness ==
    \E id \in DOMAIN uploadedfile :
        /\ uploadedfile[id].processed
        /\ Len(RunOf(uploadedfile[id])) = 2
        /\ WholeRuns(accountingoperation, id, RunOf(uploadedfile[id]), 2)

C9_RecordOnlyAfterStore ==
    /\ \A id \in DOMAIN uploadedfile : uploadedfile[id].file_path \in stored
    /\ DOMAIN bucket \subseteq stored
    /\ Cardinality(stored) =
          (file_seq - 1) + Cardinality({r \in Req : req[r].pc = "u_create"})

C9_Witness ==
    /\ Answered("upload")
    /\ response.status = 500
    /\ response.detail = "Failed to upload file to storage"
    /\ uuids = 1
    /\ file_seq = 1
    /\ bucket = <<>>

\* A file name that ends neither in .xls nor in .xlsx.
NotExcelName(filename) ==
    \A n \in {4, 5} :
        \/ Len(filename) < n
        \/ SubSeq(filename, Len(filename) - n + 1, Len(filename))
              # SubSeq(<<".", "x", "l", "s", "x">>, 1, n)

\* C10: an upload whose file name ends neither in .xls nor in .xlsx is
\* answered 400 "Invalid file format" at once, whatever its content, and
\* changes neither the tables nor the object store: no such upload is ever
\* taken further, and the step that answers it changes nothing.
C10_BadExtensionRejected ==
    [][/\ \A r \in Req :
             req'[r].kind = "upload" => ~NotExcelName(req'[r].filename)
       /\ (/\ calls' = calls + 1
           /\ req' = req
           /\ response'.kind = "upload"
           /\ NotExcelName(response'.filename))
          => /\ response'.status = 400
             /\ response'.detail = "Invalid file format"
             /\ UNCHANGED <<db, s3, local_disk>>]_vars

C10_Witness ==
    /\ Answered("upload")
    /\ response.filename = UpperName
    /\ response.status = 400
    /\ response.detail = "Invalid file format"
    /\ uploadedfile # <<>>

\* The templates the detector names and the orchestrator has no parser for.
Unparsed == {MICROINVEST, BUSINESS_NAVIGATOR, UNIVERSUM}

\* C11: processing a file whose template is microinvest, business_navigator
\* or universum is answered 500 and commits nothing, at every attempt: the
\* step of process_file on such a file answers 500 with both tables
\* unchanged, and such a file is never processed and never has an operation.
C11_NoParserFails ==
    [][/\ \A r \in Req :
             (/\ req[r].pc = "fp_query"
              /\ req'[r] # req[r]
              /\ req[r].template_type \in Unparsed)
             => /\ req'[r].pc = "idle"
                /\ response'.kind = "process"
                /\ response'.file_id = req[r].file_id
                /\ response'.status = 500
                /\ ~response'.committed
                /\ UNCHANGED db
       /\ \A id \in DOMAIN uploadedfile' :
             uploadedfile'[id].template_type \in Unparsed
                => /\ ~uploadedfile'[id].processed
                   /\ OperationsOf(accountingoperation', id) = {}]_vars

C11_Witness ==
    /\ Answered("process")
    /\ response.status = 500
    /\ response.file_id \in DOMAIN uploadedfile
    /\ uploadedfile[response.file_id].template_type \in Unparsed
    /\ uploadedfile[response.file_id].file_path \in DOMAIN local_disk
    /\ ~uploadedfile[response.file_id].processed
    /\ \E q \in Req : /\ req[q].pc = "fp_query"
                      /\ req[q].file_id = response.file_id

\* C12: a file accepted by upload, stored in the object store only, whose
\* template has a parser and whose sheet has a valid row, can be processed:
\* process_file on such a file goes on to the commit with the operations
\* parsed from the stored object, whether or not a local copy exists.
C12_StoredFileProcessable ==
    [][\A r \in Req :
          (/\ req[r].pc = "fp_query"
           /\ req'[r] # req[r]
           /\ req[r].file_id \in DOMAIN uploadedfile
           /\ HasParser(req[r].template_type)
           /\ req[r].s3_key \in DOMAIN bucket
           /\ Parse(req[r].template_type, bucket[req[r].s3_key], req[r].file_id) # <<>>)
          => /\ req'[r].pc = "fp_commit"
             /\ req'[r].operations =
                   Parse(req[r].template_type, bucket[req[r].s3_key], req[r].file_id)]_vars

\* C13: GET /files/{id}, DELETE /files/{id}, POST /files/{id}/process and
\* GET /operations/{id} for an identifier that was never created (one the
\* sequence has not handed out yet) are answered 404 with a detail at once,
\* and the step changes neither the tables nor the object store.
C13_UnknownIdIs404 ==
    [][/\ \A r \in Req :
             (req[r].pc = "idle" /\ req'[r].pc # "idle"
                 /\ req'[r].kind \in {"process", "delete"})
                => req'[r].file_id < file_seq
       /\ (/\ calls' = calls + 1
           /\ req' = req
           /\ \/ /\ response'.kind \in {"get_file", "delete", "process"}
                 /\ response'.file_id >= file_seq
              \/ /\ response'.kind = "get_operation"
                 /\ response'.file_id >= op_seq)
          => /\ response'.status = 404
             /\ response'.detail # ""
             /\ UNCHANGED <<db, s3, local_disk>>]_vars

C13_Witness ==
    /\ Answered("get_operation")
    /\ response.status = 404
    /\ response.detail = "Operation not found"
    /\ response.file_id = op_seq
    /\ accountingoperation # {}

\* C14: starting from no files, after one upload of a valid .xlsx file with
\* Rival content, listing the files (no filter) returns exactly one file, with
\* template_type "rival" and processed = FALSE.
C14_UploadThenList ==
    (/\ Answered("get_files")
     /\ response.query = <<"", None>>
     /\ calls = 2
     /\ 1 \in DOMAIN uploadedfile
     /\ uploadedfile[1].filename = XlsxName
     /\ uploadedfile[1].file_path \in DOMAIN bucket
     /\ bucket[uploadedfile[1].file_path].detected = Some(RIVAL))
    => /\ response.total = 1
       /\ response.items = <<[id |-> 1, filename |-> XlsxName,
                              template_type |-> "rival", processed |-> FALSE]>>

\* C15: every persisted operation carries the template_type of the file it
\* belongs to.
C15_OperationTemplateMatchesFile ==
    \A o \in accountingoperation :
        o.op.file_id \in DOMAIN uploadedfile
           => o.op.template_type = uploadedfile[o.op.file_id].template_type

\* C16: no S3Service operation lets a failure of the storage client reach
\* its caller: whatever the client did in the upload_file or delete_file call
\* of a request, the operation returned a value.
C16_S3NeverRaises ==
    /\ (Answered("upload") /\ response.s3_outcome \in S3Outcomes)
          => S3UploadResult(response.s3_outcome) \in {"True", "False"}
    /\ (Answered("delete") /\ response.s3_outcome \in S3Outcomes)
          => S3DeleteResult(response.s3_outcome) \in {"True", "False"}

\* An attempt that could not connect, and one that found or made the bucket.
ConnectionFailed(attempt) == attempt[Len(attempt)] = "EndpointConnectionError"
BucketReady(attempt) == attempt[Len(attempt)] = "ok"

\* C17: with S3 enabled, bucket initialisation makes at most 5 attempts and
\* goes on after a failed connection while attempts are left; it answers True
\* when an attempt finds or creates the bucket (such as the 3rd after two
\* failed connections) and False, without raising, when all 5 connections
\* fail.
C17_BucketInitRetries ==
    /\ Len(minio.attempts) <= MAX_RETRIES
    /\ (minio.pc = "loop" /\ minio.attempts # <<>>)
          => \A i \in 1..Len(minio.attempts) : ConnectionFailed(minio.attempts[i])
    /\ (minio.pc = "done" /\ minio.attempts # <<>>)
          => LET n == Len(minio.attempts)
             IN /\ minio.result \in {"True", "False"}
                /\ BucketReady(minio.attempts[n]) => minio.result = "True"
                /\ ConnectionFailed(minio.attempts[n])
                      => /\ n = MAX_RETRIES
                         /\ \A i \in 1..n : ConnectionFailed(minio.attempts[i])
                         /\ minio.result = "False"

C17_Witness ==
    /\ minio.pc = "done"
    /\ minio.result = "True"
    /\ minio.attempts = << <<"EndpointConnectionError">>,
                           <<"EndpointConnectionError">>, <<"ok">> >>

\* C18: the session of a request is open while its handler runs and closed
\* once the request has finished, whether the handler returned or raised.
C18_SessionClosed ==
    \A r \in Req :
        req[r].session = IF req[r].pc = "idle" THEN "closed" ELSE "open"

C18_Witness ==
    /\ Answered("process")
    /\ response.status = 500
    /\ response.parsed = "ok"
    /\ \A r \in Req : req[r].pc = "idle" /\ req[r].session = "closed"

\* The keywords of every template, with the title phrase of a Rival sheet.
AllKeywords ==
    ajur_specific_indicators \o bn_unique_indicators \o rival_expected_keywords
    \o rival_specific_patterns \o strong_ajur_indicators \o secondary_keywords
    \o ajur_expected_keywords \o microinvest_expected_keywords
    \o bn_expected_keywords \o alternative_keywords \o strong_indicators
    \o accounting_terms

\* No header and no cell of the file holds a keyword of any template.
MatchesNoKeyword(file) ==
    /\ CountMatches(file.headers, AllKeywords) = 0
    /\ \A i \in 1..Len(file.rows) : CountMatches(file.rows[i], AllKeywords) = 0

Detected == detection # NoDetection

\* Can the entry point read the file: detect_template has the default engine
\* only, detect_template_from_bytes falls back on xlrd.
ReadBy(entry, file) ==
    \/ file.read = "default"
    \/ file.read = "xlrd" /\ entry = "detect_template_from_bytes"

Analysed == Detected /\ ReadBy(detection.entry, detection.file)
                     /\ detection.file.analysis = "ok"

\* C19: detect_template and detect_template_from_bytes never raise, and they
\* return None both for a sheet that matches no template's keywords and when
\* reading or analysing the sheet raises an exception.
C19_DetectorNeverRaises ==
    Detected =>
        /\ detection.result # Raise
        /\ MatchesNoKeyword(detection.file) => detection.result = None
        /\ ~Analysed => detection.result = None

\* A call has returned None for a file it could not read, for a file whose
\* analysis raised, or for a file it analysed that holds no keyword.
C19_Witness ==
    /\ Detected
    /\ detection.result = None
    /\ \/ ~ReadBy(detection.entry, detection.file)
       \/ detection.file.analysis = "raises"
       \/ Analysed /\ MatchesNoKeyword(detection.file)

\* At least 3 of the 8 Rival keywords are found in the headers and none of
\* the Business Navigator strong indicators is.
RivalHeadersOnly(file) ==
    /\ CountMatches(file.headers, rival_expected_keywords) >= 3
    /\ CountMatches(file.headers, bn_unique_indicators) = 0

\* The text of none of the first five rows holds an audit phrase of AJUR.
NoAuditPhrase(file) ==
    \A i \in 1..Min(5, Len(file.rows)) :
        \A k \in 1..Len(strong_ajur_indicators) :
            ~Contains(RowText(file.rows[i]), strong_ajur_indicators[k])

\* The headers pass the AJUR full check: 'vid dok' and 16 of 16 keywords.
AjurHeaders(file) ==
    /\ AnyContains(file.headers, "vid dok")
    /\ check_keywords_in_headers(file.headers, ajur_expected_keywords, 16)

\* C20 as stated: every sheet whose headers match at least 3 of the 8 Rival
\* keywords and hold no Business Navigator strong indicator is detected as
\* Rival.
C20_RivalHeadersGiveRival ==
    (Analysed /\ RivalHeadersOnly(detection.file))
        => detection.result = Some(RIVAL)

\* C20, amended: such a sheet is detected as Rival when, besides, none of
\* its first five rows holds an AJUR audit phrase and its headers do not
\* pass the AJUR full check.
C20_RivalHeadersWithoutAjurGiveRival ==
    (/\ Analysed
     /\ RivalHeadersOnly(detection.file)
     /\ NoAuditPhrase(detection.file)
     /\ ~AjurHeaders(detection.file))
        => detection.result = Some(RIVAL)

\* A sheet with exactly 3 Rival keywords in its headers, data rows and no
\* audit phrase has been detected as Rival.
C20_Witness ==
    /\ Analysed
    /\ CountMatches(detection.file.headers, rival_expected_keywords) = 3
    /\ CountMatches(detection.file.headers, bn_unique_indicators) = 0
    /\ detection.file.rows # <<>>
    /\ NoAuditPhrase(detection.file)
    /\ ~AjurHeaders(detection.file)
    /\ detection.result = Some(RIVAL)

\* The headers hold at least 2 Business Navigator strong indicators and pass
\* the Business Navigator full pattern.
BusinessNavigatorHeadersOf(file) ==
    /\ CountMatches(file.headers, bn_unique_indicators) >= 2
    /\ \/ /\ CountMatches(file.headers, strong_indicators) >= 2
          /\ CountMatches(file.headers, bn_expected_keywords \o alternative_keywords) >= 5
       \/ CountMatches(file.headers, bn_expected_keywords \o alternative_keywords) >= 15

\* The text of one of the first ten rows holds the title phrase of Rival.
RivalPhrase(file) ==
    \E i \in 1..Min(10, Len(file.rows)) :
        Contains(RowText(file.rows[i]), "hronologiqen opis")

\* C21 as stated: a sheet with Business Navigator headers (2 strong
\* indicators and the full pattern) and the Rival title phrase in its first
\* rows is classified as Business Navigator, not Rival.
C21_BusinessNavigatorOverridesRival ==
    (Analysed /\ BusinessNavigatorHeadersOf(detection.file) /\ RivalPhrase(detection.file))
        => detection.result = Some(BUSINESS_NAVIGATOR)

\* The text of none of the first five rows holds one of the three audit
\* phrases of the AJUR pre-check.
NoPreCheckPhrase(file) ==
    \A i \in 1..Min(5, Len(file.rows)) :
        \A k \in 1..Len(ajur_specific_indicators) :
            ~Contains(RowText(file.rows[i]), ajur_specific_indicators[k])

\* C21, amended: such a sheet is classified as Business Navigator when none
\* of its first five rows holds an AJUR audit phrase.
C21_BusinessNavigatorOverridesRivalWithoutAjur ==
    (/\ Analysed
     /\ BusinessNavigatorHeadersOf(detection.file)
     /\ RivalPhrase(detection.file)
     /\ NoPreCheckPhrase(detection.file))
        => detection.result = Some(BUSINESS_NAVIGATOR)

\* A sheet with Business Navigator headers and the Rival title phrase, free
\* of audit phrases, has been classified as Business Navigator.
C21_Witness ==
    /\ Analysed
    /\ BusinessNavigatorHeadersOf(detection.file)
    /\ RivalPhrase(detection.file)
    /\ NoPreCheckPhrase(detection.file)
    /\ detection.result = Some(BUSINESS_NAVIGATOR)

\* C22: a sheet read without named headers, whose first row holds the eight
\* Rival column labels and which has fewer than 7 rows in all, is detected
\* by detect_template as RIVAL.
C22_LabelsInFirstRowGiveRival ==
    (/\ Detected
     /\ detection.entry = "detect_template"
     /\ detection.file.read = "default"
     /\ detection.file.analysis = "ok"
     /\ detection.file.headers = UnnamedHeaders
     /\ Len(detection.file.rows) \in 1..6
     /\ detection.file.rows[1] = RivalLabels)
        => detection.result = Some(RIVAL)

Parsed == parsing # NoParsing /\ parsing.call = "parse"

Empty(cell) == cell = "NaN"

\* C23: no row with an empty amount cell, or with both account cells empty,
\* is in the output of a parser, and every operation of the output has an
\* operation date and an amount, those of its row.
C23_SkippedRowsNeverAppear ==
    Parsed =>
        \A k \in 1..Len(parsing.result) :
            LET op == parsing.result[k]
                row == op.raw_data
            IN /\ \E i \in 1..Len(parsing.sheet.rows) : parsing.sheet.rows[i] = row
               /\ ~Empty(row.amount)
               /\ ~(Empty(row.debit) /\ Empty(row.credit))
               /\ convert_to_date(row.date) = Some(op.operation_date)
               /\ clean_numeric(row.amount) = Some(op.amount)

\* A parser has returned operations for a sheet wide enough for it that
\* holds a row without amount and a row without accounts.
C23_Witness ==
    /\ Parsed
    /\ parsing.sheet.ncols = IF parsing.template_type = RIVAL THEN 8 ELSE 9
    /\ \E i, j \in 1..Len(parsing.sheet.rows) :
          /\ parsing.sheet.rows[i] = NoAmountRow
          /\ parsing.sheet.rows[j] = NoAccountRow
    /\ Len(parsing.result) = 1

\* C24: GET /operations/export is answered 200 by the export handler, with
\* the placeholder message and the filter values received.
C24_ExportReachesItsHandler ==
    response.path = <<"export">>
        => /\ response.kind = "export_operations"
           /\ response.status = 200
           /\ response.detail = ExportMessage
           /\ response.query \in {<<template_type>> : template_type \in TemplateFilters}

\* The rules of the detector in the order claimed, each with whether it
\* classifies the frame and the answer it gives.
Rule(classifies, answer) == [classifies |-> classifies, answer |-> answer]

Rules(df) ==
    LET headers == get_headers(df)
        ajur_phrase ==
            \E i \in 1..Min(5, Len(df.rows)) :
               \E k \in 1..Len(ajur_specific_indicators) :
                  Contains(RowText(df.rows[i]), ajur_specific_indicators[k])
        rival_phrase ==
            \E i \in 1..Min(10, Len(df.rows)) :
               Contains(RowText(df.rows[i]), "hronologiqen opis")
        bn_strong == has_business_navigator_strong_indicators(headers)
    IN << Rule(ajur_phrase /\ check_ajur_pattern(df, headers), Some(AJUR)),
          Rule(filename_hint(df) # None, filename_hint(df)),
          Rule(rival_phrase /\ ~bn_strong, Some(RIVAL)),
          Rule(bn_strong /\ check_business_navigator_pattern(df, headers),
               Some(BUSINESS_NAVIGATOR)),
          Rule(check_ajur_pattern(df, headers), Some(AJUR)),
          Rule(check_rival_pattern(df, headers), Some(RIVAL)),
          Rule(check_microinvest_pattern(df, headers), Some(MICROINVEST)),
          Rule(check_business_navigator_pattern(df, headers), Some(BUSINESS_NAVIGATOR)),
          Rule(check_universum_pattern(df, headers), Some(UNIVERSUM)) >>

\* The answer of the first rule that classifies, None when none does.
RECURSIVE FirstClassifying(_, _)
FirstClassifying(rules, i) ==
    IF i > Len(rules) THEN None
    ELSE IF rules[i].classifies THEN rules[i].answer
    ELSE FirstClassifying(rules, i + 1)

\* C25: the detector answers what the first rule that classifies answers, in
\* the order AJUR pre-check, filename hint, Rival phrase scan, Business
\* Navigator pre-check, AJUR, Rival, Microinvest, Business Navigator,
\* Universum, and None when no rule classifies.
C25_FirstRuleDecides ==
    Analysed =>
        detection.result = FirstClassifying(Rules(read_excel(detection.file)), 1)

\* A frame that two rules classify differently got the answer of the first.
C25_Witness ==
    /\ Analysed
    /\ LET rules == Rules(read_excel(detection.file))
       IN \E i, j \in 1..Len(rules) :
             /\ i < j
             /\ rules[i].classifies /\ rules[j].classifies
             /\ rules[i].answer # rules[j].answer
             /\ \A h \in 1..(i - 1) : ~rules[h].classifies
             /\ detection.result = rules[i].answer

\* C26 as stated: a sheet is classified as AJUR only if its headers hold
\* 'vid dok' and 16 of the 16 AJUR keywords.
C26_AjurOnlyByHeaders ==
    (Analysed /\ detection.result = Some(AJUR)) => AjurHeaders(detection.file)

\* One of the first five rows holds one of the four audit phrases, and one
\* of the four secondary keywords is in a header or in a cell of that row.
AjurAuditRow(file) ==
    \E i \in 1..Min(5, Len(file.rows)) :
        /\ \E k \in 1..Len(strong_ajur_indicators) :
              Contains(RowText(file.rows[i]), strong_ajur_indicators[k])
        /\ \E s \in 1..Len(secondary_keywords) :
              \/ AnyContains(file.headers, secondary_keywords[s])
              \/ AnyContains(RowValues(file.rows[i]), secondary_keywords[s])

\* C26, amended: a sheet is classified as AJUR only if its headers hold
\* 'vid dok' and 16 of the 16 AJUR keywords, or one of its first five rows
\* holds an audit phrase confirmed by a secondary keyword.
C26_AjurOnlyByHeadersOrAuditRow ==
    (Analysed /\ detection.result = Some(AJUR))
        => (AjurHeaders(detection.file) \/ AjurAuditRow(detection.file))

\* A sheet has been classified as AJUR by its audit row alone.
C26_Witness ==
    /\ Analysed
    /\ detection.result = Some(AJUR)
    /\ AjurAuditRow(detection.file)
    /\ ~AjurHeaders(detection.file)

\* The largest column position the parser of the template reads in a row.
LastColumn(template_type) == IF template_type = RIVAL THEN 7 ELSE 8

\* The rows after the header row the parser of the sheet finds.
DataRows(sheet) ==
    SubSeq(sheet.rows, find_data_start_row(sheet.rows) + 1, Len(sheet.rows))

\* Converting the date or the amount of the row raises an error.
ConversionFails(row) ==
    \/ ~Empty(row.date) /\ convert_to_date_try(row.date) = ValueError
    \/ ~Empty(row.amount) /\ clean_numeric_try(row.amount) = ValueError

\* The row alone gives an operation: it has an amount and an account, and
\* its date and its amount convert to a date and to an amount other than 0.
GivesOperation(row) ==
    /\ ~Empty(row.amount)
    /\ ~(Empty(row.debit) /\ Empty(row.credit))
    /\ ~Empty(row.date)
    /\ ~ConversionFails(row)
    /\ clean_numeric_try(row.amount) # Some(0)

\* C27: a row whose extraction raises an error is skipped and nothing else
\* is: the output of a parser holds, in their order, exactly the rows that
\* give an operation on their own, whatever the rows around them.  In a
\* sheet with too few columns no row gives an operation.
C27_RowErrorSkipsTheRowOnly ==
    Parsed =>
        [k \in 1..Len(parsing.result) |-> parsing.result[k].raw_data]
           = IF parsing.sheet.ncols > LastColumn(parsing.template_type)
             THEN SelectSeq(DataRows(parsing.sheet), GivesOperation)
             ELSE <<>>

\* A parser has kept the rows before and after a row whose date, or whose
\* amount, does not convert.
C27_Witness ==
    /\ Parsed
    /\ parsing.sheet.ncols > LastColumn(parsing.template_type)
    /\ Len(parsing.sheet.rows) = 3
    /\ GivesOperation(parsing.sheet.rows[1])
    /\ ConversionFails(parsing.sheet.rows[2])
    /\ GivesOperation(parsing.sheet.rows[3])
    /\ Len(parsing.result) = 2

HeaderKeywordsOf(template_type) ==
    IF template_type = RIVAL THEN rival_header_keywords ELSE ajur_header_keywords

\* i for the first of the first ten rows in which at least 4 of the
\* keywords are found, 0 when there is none (rows counted from 1).
RECURSIVE FirstWithFourKeywords(_, _, _)
FirstWithFourKeywords(frame, header_keywords, i) ==
    IF i > Min(10, Len(frame)) THEN 0
    ELSE IF CountMatches(RowValues(frame[i]), header_keywords) >= 4 THEN i
    ELSE FirstWithFourKeywords(frame, header_keywords, i + 1)

\* C28: _find_data_start_row returns i + 1 for the first row i, of the first
\* 10, that contains at least 4 distinct header keywords, and 0 when no such
\* row is among them.
C28_StartAfterRowWithFourKeywords ==
    (parsing # NoParsing /\ parsing.call = "_find_data_start_row")
        => parsing.result
              = FirstWithFourKeywords(parsing.frame,
                                      HeaderKeywordsOf(parsing.template_type), 1)

\* The last call of a pass, and whether it was a head_bucket: the first call
\* of a pass is head_bucket, the second create_bucket, the third head_bucket.
LastCall(attempt) == attempt[Len(attempt)]

EndsInHeadBucket(attempt) == Len(attempt) \in {1, 3}

\* C29: only a connection error leads to another pass: every pass before the
\* last one ended in a connection error; a pass ending in any other error is
\* the last one and the result is False (a value, nothing is raised); the
\* result is True only after a head_bucket that succeeded.
C29_OnlyConnectionErrorsRetried ==
    LET n == Len(minio.attempts)
    IN /\ \A i \in 1..(n - 1) :
             LastCall(minio.attempts[i]) = "EndpointConnectionError"
       /\ (n > 0 /\ LastCall(minio.attempts[n]) \notin {"ok", "EndpointConnectionError"})
             => (minio.pc = "done" /\ minio.result = "False")
       /\ (n > 0 /\ minio.pc = "loop")
             => LastCall(minio.attempts[n]) = "EndpointConnectionError"
       /\ minio.result = "True"
             => /\ n > 0
                /\ LastCall(minio.attempts[n]) = "ok"
                /\ EndsInHeadBucket(minio.attempts[n])

\* After one failed connection the bucket is missing and its creation fails:
\* the initialisation ends there with False.
C29_Witness ==
    /\ minio.pc = "done"
    /\ minio.result = "False"
    /\ minio.retries = 1
    /\ minio.attempts = << <<"EndpointConnectionError">>, <<"404", "ClientError">> >>

\* No operation a parser has produced for a request has amount 0, and none
\* comes from a row whose amount normalizes to 0.
NoZeroProduced ==
    \A r \in Req :
        \A k \in 1..Len(req[r].operations) :
            /\ req[r].operations[k].amount # 0
            /\ clean_numeric(req[r].operations[k].raw_data.amount) # Some(0)

\* C30 as stated: rows whose amount normalizes to zero are dropped, so no
\* operation produced by a parser and no persisted operation has amount 0.
C30_NoZeroAmount ==
    /\ NoZeroProduced
    /\ \A o \in accountingoperation : o.op.amount # 0

\* C30, amended: rows whose amount normalizes to zero are dropped, so no
\* operation produced by a parser has amount 0; a persisted operation has
\* amount 0 only when the amount of its row is not zero and the two decimals
\* of the column round it to 0.
C30_NoZeroAmountBeforeRounding ==
    /\ NoZeroProduced
    /\ \A o \in accountingoperation :
          o.op.amount = 0
             => LET amount == clean_numeric(o.op.raw_data.amount)
                IN /\ amount \notin {None, Some(0)}
                   /\ Numeric_15_2(amount[1]) = 0

\* A sheet with a row of amount 0 and a row of amount 0,004 was processed:
\* the first row gave no operation, the second is stored with amount 0.
C30_Witness ==
    \E f \in DOMAIN uploadedfile :
        /\ uploadedfile[f].processed
        /\ \E o \in OperationsOf(accountingoperation, f) :
              o.op.amount = 0 /\ o.op.raw_data = TinyRow
        /\ \E o \in OperationsOf(accountingoperation, f) :
              o.op.amount = 100500 /\ o.op.raw_data = GoodRow
        /\ \A o \in OperationsOf(accountingoperation, f) : o.op.raw_data # ZeroRow
====
